---- MODULE Spec2Model ----
(***************************************************************************)
(* Model of the AI code updater: the planning service (create_action_plan, *)
(* _extract_json, _fallback_plan, generate_file_content, _clean_response), *)
(* the CLI run (cli.py main), the HTTP run (main.py update_repository) and *)
(* the GitHub write path (create_branch, create_commit).  Spec is a run,   *)
(* SpecPlanner one call of create_action_plan, SpecClean _clean_response   *)
(* called on its own, SpecSample the context sampling called on its own.   *)
(*                                                                         *)
(* Texts are sequences of one-character strings: "BT" is a backtick, "NL"  *)
(* a newline, "SP" a space, and every other character is a letter.         *)
(***************************************************************************)
EXTENDS Integers, Sequences, FiniteSets, TLC

\* ------------------------------------------------------------------ bounds
MaxFiles == 2
MaxPlanItems == 2
MaxPad == 1
MaxPieces == 6
MaxSampleFiles == 11

\* ------------------------------------------------------- program constants
PromptPreviewLen == 50

\* repository_files[:8] and file["content"][:500] (planning_service.py lines
\* 49 and 51); project_files[:10] and file['content'][:1000]
\* (claude_service.py lines 158 and 160)
PlanSampleFiles == 8
PlanSampleChars == 500
NewFileSampleFiles == 10
NewFileSampleChars == 1000

\* ----------------------------------------------------------------- options
None == [some |-> FALSE, v |-> <<>>]
Some(x) == [some |-> TRUE, v |-> x]
\* Python truthiness of an Optional[str]: None and "" are both false.
Truthy(o) == o.some /\ o.v # <<>>

\* ------------------------------------------------------------------- texts
IsSpace(c) == c \in {"NL", "SP"}

Min(a, b) == IF a < b THEN a ELSE b

\* s[:n]
Take(s, n) == SubSeq(s, 1, Min(n, Len(s)))

\* s[n:] (0-based n)
Drop(s, n) == SubSeq(s, n + 1, Len(s))

StartsWith(s, p) == Len(s) >= Len(p) /\ SubSeq(s, 1, Len(p)) = p

\* sub in s
Contains(s, sub) ==
  \E i \in 1..(Len(s) - Len(sub) + 1) : SubSeq(s, i, i + Len(sub) - 1) = sub

LowerChar(c) ==
  CASE c = "R" -> "r" [] c = "E" -> "e" [] c = "A" -> "a" [] c = "D" -> "d"
    [] c = "M" -> "m" [] c = "C" -> "c" [] c = "T" -> "t" [] c = "U" -> "u"
    [] c = "P" -> "p" [] c = "L" -> "l" [] c = "N" -> "n" [] c = "X" -> "x"
    [] c = "Y" -> "y"
    [] OTHER -> c

\* str.lower()
Lower(s) == [i \in 1..Len(s) |-> LowerChar(s[i])]

RECURSIVE LStrip(_)
LStrip(s) == IF s # <<>> /\ IsSpace(Head(s)) THEN LStrip(Tail(s)) ELSE s

RECURSIVE RStrip(_)
RStrip(s) ==
  IF s # <<>> /\ IsSpace(s[Len(s)]) THEN RStrip(SubSeq(s, 1, Len(s) - 1)) ELSE s

\* str.strip()
Strip(s) == RStrip(LStrip(s))

\* str.split("\n"): always at least one line
RECURSIVE SplitLines(_)
SplitLines(s) ==
  IF \A i \in 1..Len(s) : s[i] # "NL"
    THEN <<s>>
    ELSE LET k == CHOOSE i \in 1..Len(s) :
                    s[i] = "NL" /\ \A j \in 1..(i - 1) : s[j] # "NL"
         IN  <<SubSeq(s, 1, k - 1)>> \o SplitLines(Drop(s, k))

\* "\n".join(lines)
RECURSIVE JoinLines(_)
JoinLines(lines) ==
  IF lines = <<>> THEN <<>>
  ELSE IF Len(lines) = 1 THEN lines[1]
  ELSE lines[1] \o <<"NL">> \o JoinLines(Tail(lines))

Fence == <<"BT", "BT", "BT">>

clean_response_drop_last(lines) ==
  IF lines # <<>> /\ Strip(lines[Len(lines)]) = Fence
    THEN SubSeq(lines, 1, Len(lines) - 1)
    ELSE lines

\* PlanningService._clean_response (ClaudeService._clean_code_response is the
\* same code)
clean_response(text) ==
  IF StartsWith(text, Fence)
    THEN LET lines == SplitLines(text)
             l1 == IF StartsWith(lines[1], Fence) THEN Tail(lines) ELSE lines
         IN  Strip(JoinLines(clean_response_drop_last(l1)))
    ELSE Strip(text)

\* ----------------------------------------------------- exceptions, results
\* The outcome of a call: a returned value, or an exception leaving it.
Raise == [raised |-> TRUE, val |-> <<>>]
Return(v) == [raised |-> FALSE, val |-> v]

\* ------------------------------------------------------ completion backend
\* client.messages.create(...) followed by message.content[0].text: the text
\* of the reply, or an exception (transport error, empty content list).
CompletionError == [ok |-> FALSE, text |-> <<>>]
CompletionText(t) == [ok |-> TRUE, text |-> t]

\* ---------------------------------------------------- plan response texts
\* A plan reply is a sequence of tokens: "FJ" is the substring ```json, "F"
\* the substring ```, "ws" one whitespace character, "ch" one character of
\* prose, "json" the text of one JSON value (doc), "frag" the text of a JSON
\* value without its last character.
NoDoc == [t |-> "none", plan |-> "absent", items |-> <<>>]
TokFJ == [tok |-> "FJ", doc |-> NoDoc]
TokF == [tok |-> "F", doc |-> NoDoc]
TokWs == [tok |-> "ws", doc |-> NoDoc]
TokCh == [tok |-> "ch", doc |-> NoDoc]
TokFrag == [tok |-> "frag", doc |-> NoDoc]
TokJson(d) == [tok |-> "json", doc |-> d]

\* "```" in t: both fence tokens contain it
HasFence(t) == t.tok \in {"F", "FJ"}

\* text.find(x, from): the first index >= from whose token satisfies the
\* test, 0 when there is none (Python's -1)
FindLabelled(text) ==
  IF \E i \in 1..Len(text) : text[i].tok = "FJ"
    THEN CHOOSE i \in 1..Len(text) :
           text[i].tok = "FJ" /\ \A j \in 1..(i - 1) : text[j].tok # "FJ"
    ELSE 0

FindFence(text, from) ==
  IF \E i \in from..Len(text) : HasFence(text[i])
    THEN CHOOSE i \in from..Len(text) :
           HasFence(text[i]) /\ \A j \in from..(i - 1) : ~HasFence(text[j])
    ELSE 0

\* s[:-1] on a token sequence: the last character goes; a JSON value that
\* loses its last character is no JSON value any more.
ChopLast(s) ==
  IF s = <<>> THEN <<>>
  ELSE LET last == s[Len(s)]
           front == SubSeq(s, 1, Len(s) - 1)
       IN  IF last.tok \in {"ws", "ch"} THEN front
           ELSE IF last.tok \in {"json", "frag"} THEN front \o <<TokFrag>>
           ELSE front \o <<TokCh>>

\* text[start:end] with end = text.find("```", start), which is -1 when no
\* closing fence follows
FenceInterior(text, open) ==
  LET close == FindFence(text, open + 1)
  IN  IF close # 0
        THEN SubSeq(text, open + 1, close - 1)
        ELSE ChopLast(SubSeq(text, open + 1, Len(text)))

RECURSIVE LStripToks(_)
LStripToks(s) ==
  IF s # <<>> /\ Head(s).tok = "ws" THEN LStripToks(Tail(s)) ELSE s

RECURSIVE RStripToks(_)
RStripToks(s) ==
  IF s # <<>> /\ s[Len(s)].tok = "ws"
    THEN RStripToks(SubSeq(s, 1, Len(s) - 1))
    ELSE s

StripToks(s) == RStripToks(LStripToks(s))

\* json.loads: one JSON value, whitespace allowed around it; anything else
\* raises json.JSONDecodeError
json_loads(text) ==
  LET s == StripToks(text)
  IN  IF Len(s) = 1 /\ s[1].tok = "json" THEN Return(s[1].doc) ELSE Raise

\* PlanningService._extract_json
extract_json(text) ==
  IF FindLabelled(text) # 0
    THEN json_loads(StripToks(FenceInterior(text, FindLabelled(text))))
  ELSE IF FindFence(text, 1) # 0
    THEN json_loads(StripToks(FenceInterior(text, FindFence(text, 1))))
  ELSE json_loads(text)

\* ------------------------------------------------------------- ActionType
StrCreate == <<"c", "r", "e", "a", "t", "e">>
StrUpdate == <<"u", "p", "d", "a", "t", "e">>
StrDelete == <<"d", "e", "l", "e", "t", "e">>

\* ActionType(value): the member with that value, else ValueError
ActionType(value) ==
  IF value = StrCreate THEN Return("CREATE")
  ELSE IF value = StrUpdate THEN Return("UPDATE")
  ELSE IF value = StrDelete THEN Return("DELETE")
  ELSE Raise

\* ------------------------------------------------------------- FileAction
FileAction(action, path, reason, current_content) ==
  [action |-> action, path |-> path, reason |-> reason,
   current_content |-> current_content]

\* a reason given by the model, and the two reasons _fallback_plan writes
ReasonText(t) == [tag |-> "text", text |-> t]
ReasonReadme == [tag |-> "Create README as requested", text |-> <<>>]
ReasonFallback(prompt) ==
  [tag |-> "Update based on prompt: ", text |-> Take(prompt, PromptPreviewLen)]

\* ------------------------------------------------------- repository files
\* A file of the snapshot: path, sha and content (None when the key holds
\* None).  file.get("content") is f.content.
RepoFile(path, sha, content) == [path |-> path, sha |-> sha, content |-> content]

\* the loop of lines 128-131 without the comparison of line 129: the content
\* of the first file, whatever its path
FindCurrentContent_AnyPath(files, path) ==
  IF files # <<>> THEN files[1].content ELSE None

\* the loop of lines 128-131: the content of the first file with that path
FindCurrentContent(files, path) ==
  IF \E i \in 1..Len(files) : files[i].path = path
    THEN files[CHOOSE i \in 1..Len(files) :
                 files[i].path = path
                 /\ \A j \in 1..(i - 1) : files[j].path # path].content
    ELSE None

\* ------------------------------------------------------------ plan entries
\* One entry of the "plan" array.  obj: it is a JSON object.  A key is
\* "absent", holds a string ("str") or holds something else ("nonstr").
Absent == [k |-> "absent", s |-> <<>>]
Str(s) == [k |-> "str", s |-> s]
NonStr == [k |-> "nonstr", s |-> <<>>]
NoPath == [k |-> "absent", s |-> ""]
Path(p) == [k |-> "str", s |-> p]
PlanItem(action, path, reason) ==
  [obj |-> TRUE, action |-> action, path |-> path, reason |-> reason]
NonObjectItem == [obj |-> FALSE, action |-> Absent, path |-> NoPath, reason |-> Absent]

\* lines 123-138 for one entry: a FileAction, or the exception the entry raises
\* (TypeError for a non-object, KeyError for a missing key, AttributeError
\* for an action that is no string, ValueError for an unknown kind)
ConvertItem(item, files) ==
  IF ~item.obj \/ item.action.k # "str" THEN Raise
  ELSE IF ActionType(Lower(item.action.s)).raised THEN Raise
  ELSE IF item.path.k = "absent" \/ item.reason.k = "absent" THEN Raise
  ELSE LET action_type == ActionType(Lower(item.action.s)).val
       IN  Return(FileAction(
             action_type,
             item.path.s,
             ReasonText(item.reason.s),
             IF action_type = "UPDATE"
               THEN FindCurrentContent(files, item.path.s)
               ELSE None))

\* plan_data.get("plan", []) and the iteration over it (line 122): the entries
\* the loop visits, or AttributeError (plan_data is no object) or TypeError
\* (the value cannot be iterated).  An empty string or object iterates zero
\* times; a non-empty string or object yields strings, which are no objects.
PlanEntries(plan_data) ==
  IF plan_data.t # "obj" THEN Raise
  ELSE IF plan_data.plan = "absent" THEN Return(<<>>)
  ELSE IF plan_data.plan = "list" THEN Return(plan_data.items)
  ELSE IF plan_data.plan \in {"emptystr", "emptyobj"} THEN Return(<<>>)
  ELSE IF plan_data.plan \in {"str", "obj"} THEN Return(<<NonObjectItem>>)
  ELSE Raise

\* lines 121-140: the loop stops at the first entry that raises
ConvertPlan(entries, files) ==
  IF \E i \in 1..Len(entries) : ConvertItem(entries[i], files).raised
    THEN Raise
    ELSE Return([i \in 1..Len(entries) |-> ConvertItem(entries[i], files).val])

\* -------------------------------------------------------- _fallback_plan
Readme == <<"r", "e", "a", "d", "m", "e">>

\* the test without .lower()
MentionsReadme_CaseSensitive(prompt) == Contains(prompt, Readme)

\* "readme" in prompt.lower()
MentionsReadme(prompt) == Contains(Lower(prompt), Readme)

\* if file.get("content")
HasContent(file) == Truthy(file.content)

RECURSIVE FallbackUpdates(_, _)
FallbackUpdates(prompt, files) ==
  IF files = <<>> THEN <<>>
  ELSE (IF HasContent(Head(files))
          THEN <<FileAction("UPDATE", Head(files).path, ReasonFallback(prompt),
                            Head(files).content)>>
          ELSE <<>>)
       \o FallbackUpdates(prompt, Tail(files))

\* PlanningService._fallback_plan
fallback_plan(prompt, files) ==
  (IF MentionsReadme(prompt)
     THEN <<FileAction("CREATE", "README.md", ReasonReadme, None)>>
     ELSE <<>>)
  \o FallbackUpdates(prompt, files)

\* ---------------------------------------------------- create_action_plan
\* the body of the try block, lines 104-140
create_action_plan_try(user_prompt, repository_files, completion) ==
  IF ~completion.ok THEN Raise
  ELSE IF extract_json(completion.text).raised THEN Raise
  ELSE IF PlanEntries(extract_json(completion.text).val).raised THEN Raise
  ELSE ConvertPlan(PlanEntries(extract_json(completion.text).val).val,
                   repository_files)

\* the except block letting the exception go on
create_action_plan_except_reraises(user_prompt, repository_files) == Raise

\* the except block, lines 142-145
create_action_plan_except(user_prompt, repository_files) ==
  Return(fallback_plan(user_prompt, repository_files))

\* PlanningService.create_action_plan
create_action_plan(user_prompt, repository_files, completion) ==
  IF create_action_plan_try(user_prompt, repository_files, completion).raised
    THEN create_action_plan_except(user_prompt, repository_files)
    ELSE create_action_plan_try(user_prompt, repository_files, completion)

\* ------------------------------------------------- content generation
\* PlanningService._generate_new_file: the completion call raises, or the
\* cleaned reply is returned
generate_new_file(action, reply) ==
  IF ~reply.ok THEN Raise ELSE Return(clean_response(reply.text))

\* PlanningService._update_existing_file: the prompt embeds
\* action.current_content as it is (None included); same call and cleaning
update_existing_file(action, reply) ==
  IF ~reply.ok THEN Raise ELSE Return(clean_response(reply.text))

\* What one call did: the prompt it sent to the completion backend
\* (task "none": no request was made), whether an exception left the call,
\* and the content it returned (None for Python's None).
NoRequest == [task |-> "none", path |-> "", current_content |-> None]
Request(task, action) ==
  [task |-> task, path |-> action.path, current_content |-> action.current_content]
Generated(request, result) ==
  [raised |-> FALSE, request |-> request,
   content |-> IF result.raised THEN None ELSE Some(result.val)]

\* generate_file_content without its except block
generate_file_content_uncaught(action, reply) ==
  IF action.action = "DELETE"
    THEN [raised |-> FALSE, request |-> NoRequest, content |-> None]
    ELSE [raised |-> ~reply.ok,
          request |-> Request(IF action.action = "CREATE"
                                THEN "create-file" ELSE "update-file", action),
          content |-> IF reply.ok THEN Some(clean_response(reply.text)) ELSE None]

\* PlanningService.generate_file_content: the try block dispatches on the
\* kind, the except block turns every exception into None
generate_file_content(action, reply) ==
  IF action.action = "CREATE"
    THEN Generated(Request("create-file", action), generate_new_file(action, reply))
  ELSE IF action.action = "UPDATE"
    THEN Generated(Request("update-file", action), update_existing_file(action, reply))
  ELSE [raised |-> FALSE, request |-> NoRequest, content |-> None]

\* ClaudeService.generate_code_update: the cleaned reply, None on any exception
generate_code_update(current_content, reply) ==
  IF ~reply.ok THEN None ELSE Some(clean_response(reply.text))

\* ------------------------------------------------------ repository store
\* GitHubService.get_repository_files, lines 52-61: a blob is kept when
\* get_file_content returned a non-empty text (None: 404, binary, bad
\* encoding)
RECURSIVE get_repository_files(_)
get_repository_files(tree) ==
  IF tree = <<>> THEN <<>>
  ELSE (IF Truthy(Head(tree).content) THEN <<Head(tree)>> ELSE <<>>)
       \o get_repository_files(Tail(tree))

\* path.endswith(pattern.replace("*", "")) for the pattern "*.py"
EndsWithPy(path) == path \in {"a.py", "c.py", "d.py", "x.py"}

\* main.py line 86-87: request.file_pattern is None or "*.py"
RECURSIVE FilterPattern(_, _)
FilterPattern(files, file_pattern) ==
  IF files = <<>> THEN <<>>
  ELSE (IF file_pattern = "none" \/ EndsWithPy(Head(files).path)
          THEN <<Head(files)>> ELSE <<>>)
       \o FilterPattern(Tail(files), file_pattern)

\* the sha of the first file with that path, "null" when there is none
\* (cli.py lines 192-197)
FindSha(files, path) ==
  IF \E i \in 1..Len(files) : files[i].path = path
    THEN files[CHOOSE i \in 1..Len(files) :
                 files[i].path = path
                 /\ \A j \in 1..(i - 1) : files[j].path # path].sha
    ELSE "null"

FileChange(path, content, sha) == [path |-> path, content |-> content, sha |-> sha]

\* ------------------------------------------------------------------ inputs
PathPool == <<"a.py", "b.md", "d.py", "e.md">>
NumPaths == Min(MaxFiles, Len(PathPool))
ShaOf(path) ==
  CASE path = "a.py" -> "s1" [] path = "b.md" -> "s2" [] path = "d.py" -> "s3"
    [] OTHER -> "s4"

TextA == <<"a">>
TextB == <<"b">>

\* what get_file_content can return for a blob: None, "" or a text
RawContents == {None, Some(<<>>), Some(TextA)}

\* the blobs of the base branch's tree, in the tree's order; every path once
RECURSIVE TreesFrom(_)
TreesFrom(i) ==
  IF i > NumPaths THEN {<<>>}
  ELSE LET rest == TreesFrom(i + 1)
       IN  rest \cup {<<RepoFile(PathPool[i], ShaOf(PathPool[i]), c)>> \o r :
                        c \in RawContents, r \in rest}

Trees == TreesFrom(1)

RECURSIVE SeqsUpTo(_, _)
SeqsUpTo(S, n) ==
  IF n = 0 THEN {<<>>}
  ELSE LET shorter == SeqsUpTo(S, n - 1)
       IN  shorter \cup {<<x>> \o q : x \in S, q \in {q \in shorter : Len(q) = n - 1}}

\* instructions: "readme" in every letter case and its near misses, with up
\* to MaxPad characters before and after
UpperChar(c) ==
  CASE c = "r" -> "R" [] c = "e" -> "E" [] c = "a" -> "A" [] c = "d" -> "D"
    [] c = "m" -> "M" [] OTHER -> c
CaseVariants ==
  {[i \in 1..Len(Readme) |-> IF i \in S THEN UpperChar(Readme[i]) ELSE Readme[i]] :
     S \in SUBSET (1..Len(Readme))}
NearMisses ==
  {SubSeq(Readme, 1, i - 1) \o SubSeq(Readme, i + 1, Len(Readme)) : i \in 1..Len(Readme)}
  \cup {SubSeq(Readme, 1, i) \o <<"SP">> \o SubSeq(Readme, i + 1, Len(Readme)) :
          i \in 1..(Len(Readme) - 1)}
Pads == SeqsUpTo({"x", "R"}, MaxPad)
Instructions ==
  {l \o w \o r : l \in Pads, w \in CaseVariants \cup NearMisses, r \in Pads}

PromptFix == <<"f", "i", "x">>
PromptReadme == <<"a", "d", "d", "SP", "R", "e", "a", "d", "m", "e">>
RunPrompts == {PromptFix, PromptReadme}

\* entries of a plan reply
ReasonW == <<"w">>
ItemCreateX == PlanItem(Str(StrCreate), Path("x.py"), Str(ReasonW))
ItemUpdateA == PlanItem(Str(<<"U", "p", "d", "a", "t", "e">>), Path("a.py"), Str(ReasonW))
ItemUpdateC == PlanItem(Str(<<"U", "P", "D", "A", "T", "E">>), Path("c.py"), Str(ReasonW))
ItemDeleteA == PlanItem(Str(StrDelete), Path("a.py"), Str(ReasonW))
ItemRename == PlanItem(Str(<<"r", "e", "n", "a", "m", "e">>), Path("a.py"), Str(ReasonW))
ItemActionNull == PlanItem(NonStr, Path("a.py"), Str(ReasonW))
ItemNoAction == PlanItem(Absent, Path("a.py"), Str(ReasonW))
ItemNoPath == PlanItem(Str(StrUpdate), NoPath, Str(ReasonW))
ItemNoReason == PlanItem(Str(StrCreate), Path("x.py"), Absent)

WellFormedItems == {ItemCreateX, ItemUpdateA, ItemUpdateC, ItemDeleteA}
AllItems ==
  WellFormedItems
  \cup {ItemRename, ItemActionNull, ItemNoAction, ItemNoPath, ItemNoReason, NonObjectItem}

\* JSON documents
PlanDoc(items) == [t |-> "obj", plan |-> "list", items |-> items]
OddDoc(t, plan) == [t |-> t, plan |-> plan, items |-> <<>>]
OddDocs ==
  {OddDoc("obj", p) : p \in {"absent", "null", "num", "emptystr", "str", "emptyobj", "obj"}}
  \cup {OddDoc("arr", "absent"), OddDoc("scalar", "absent")}
PlannerDocs == {PlanDoc(q) : q \in SeqsUpTo(AllItems, MaxPlanItems)} \cup OddDocs

\* the ways a reply carries a document: bare, in a labelled fence, in a plain
\* fence, with prose around a labelled fence, in a fence that is never
\* closed, in an unclosed fence followed by one character, bare with
\* trailing prose, in a plain fence with a language tag
Wrappings(d) ==
  { <<TokJson(d)>>,
    <<TokFJ, TokWs, TokJson(d), TokWs, TokF>>,
    <<TokF, TokWs, TokJson(d), TokWs, TokF>>,
    <<TokCh, TokWs, TokFJ, TokJson(d), TokF, TokWs, TokCh>>,
    <<TokFJ, TokJson(d)>>,
    <<TokFJ, TokJson(d), TokCh>>,
    <<TokJson(d), TokCh>>,
    <<TokF, TokCh, TokWs, TokJson(d), TokWs, TokF>> }
PlannerCompletions ==
  {CompletionError, CompletionText(<<>>), CompletionText(<<TokCh>>)}
  \cup {CompletionText(w) : w \in UNION {Wrappings(d) : d \in PlannerDocs}}

\* the plan replies of a run: a failed call, or a bare document of entries
RunCompletions ==
  {CompletionError}
  \cup {CompletionText(<<TokJson(PlanDoc(q))>>) :
          q \in SeqsUpTo(WellFormedItems, MaxPlanItems)}

\* the replies to a content request: a failed call, an empty text, the text
\* "a", and the text "b" in a fenced block
FencedB == Fence \o <<"NL">> \o TextB \o <<"NL">> \o Fence \o <<"NL">>
GenReplies ==
  {CompletionError, CompletionText(<<>>), CompletionText(TextA), CompletionText(FencedB)}

\* ------------------------------------------------------------------- state
VARIABLES
  entry,         \* "cli": cli.py main; "api": main.py update_repository;
                 \* "planner": one call of create_action_plan
  pc,            \* the position of the run
  prompt,        \* args.prompt / request.prompt / user_prompt
  plan_only,     \* args.plan_only
  yes,           \* args.yes
  file_pattern,  \* request.file_pattern
  files,         \* the repository snapshot, repository_files
  completion,    \* the completion backend's reply to the plan request
  actions,       \* what create_action_plan gave: a plan, or an exception
  idx,           \* the loop's position (1-based) in actions or in files
  file_changes,  \* the accumulated FileChange list
  origin,        \* history: origin[k] is the index of the action (or file)
                 \* that produced file_changes[k]
  log,           \* history: one entry per loop iteration, with the request
                 \* it sent, the reply it got and the content it kept
  refs_new,      \* the commit the new branch's ref points at ("absent")
  calls,         \* history: the requests sent to the repository store
  committed,     \* the file_changes argument create_commit received
  tree_entries,  \* create_commit's tree_entries: one path per blob made
  error,         \* the exception that ended the run ("none")
  outcome,       \* how the run ended ("running")
  confirm,       \* what input() returned at the confirmation, None before
  arg,           \* a helper called on its own: the arguments of the call
  result         \* a helper called on its own: what the calls returned

vars ==
  <<entry, pc, prompt, plan_only, yes, file_pattern, files, completion, actions,
    idx, file_changes, origin, log, refs_new, calls, committed, tree_entries,
    error, outcome, confirm, arg, result>>

NoCompletion == CompletionText(<<>>)

InitRun ==
  /\ actions = Return(<<>>)
  /\ idx = 0
  /\ file_changes = <<>>
  /\ origin = <<>>
  /\ log = <<>>
  /\ refs_new = "absent"
  /\ calls = <<>>
  /\ committed = <<>>
  /\ tree_entries = <<>>
  /\ error = "none"
  /\ outcome = "running"
  /\ confirm = None
  /\ result = <<>>

\* a CLI run after parse_args, or an HTTP request to /api/update-repo
Init ==
  /\ InitRun
  /\ arg = <<>>
  /\ files = <<>>
  /\ completion = NoCompletion
  /\ prompt \in RunPrompts
  /\ \/ /\ entry = "cli"
        /\ pc = "cli_start"
        /\ plan_only \in BOOLEAN
        /\ yes \in BOOLEAN
        /\ file_pattern = "none"
     \/ /\ entry = "api"
        /\ pc = "api_start"
        /\ plan_only = FALSE
        /\ yes = FALSE
        /\ file_pattern \in {"none", "*.py"}

\* the run ends with this outcome
Ends(how) == pc' = "done" /\ outcome' = how

\* an exception reaches the run's handler: cli.py lines 239-243 (exit code
\* 1), main.py lines 145-147 (HTTP 500)
Raises(what) ==
  /\ error' = what
  /\ Ends(IF entry = "cli" THEN "error" ELSE "http_500")

\* What the caller of a run sees of its outcome: the exit status of the CLI
\* process (sys.exit at cli.py lines 108, 113, 150, 158, 165, 210 and 243; 0
\* when main returns) or the status of the HTTP response (main.py lines
\* 113-120 and 136-143 return a response, line 147 raises HTTPException 500)
ExitStatus(how) ==
  CASE how \in {"plan_only", "aborted", "success"} -> 0
    [] how \in {"config_error", "no_actions", "no_files_generated", "error"} -> 1
    [] how \in {"api_no_changes", "api_success"} -> 200
    [] how = "http_500" -> 500

\* ---------------------------------------------------------------- cli.py
\* lines 101-113: both credentials must be set
CliCheckEnv ==
  /\ entry = "cli" /\ pc = "cli_start"
  /\ \E github_token \in BOOLEAN, anthropic_key \in BOOLEAN :
       IF github_token /\ anthropic_key
         THEN pc' = "cli_fetch" /\ outcome' = outcome
         ELSE Ends("config_error")
  /\ UNCHANGED <<arg, result, confirm, entry, prompt, plan_only, yes,
                 file_pattern,
                 files, completion,
                 actions, idx, file_changes, origin, log, refs_new, calls,
                 committed, tree_entries, error>>

\* lines 120-130: parse_repo_url and get_repository_files; either raises
\* (bad URL, store unreachable) or the snapshot is taken
CliFetchFiles ==
  /\ entry = "cli" /\ pc = "cli_fetch"
  /\ \E ok \in BOOLEAN, tree \in Trees :
       IF ok
         THEN /\ files' = get_repository_files(tree)
              /\ pc' = "cli_plan"
              /\ UNCHANGED <<error, outcome>>
         ELSE /\ Raises("fetch")
              /\ files' = files
  /\ UNCHANGED <<arg, result, confirm, entry, prompt, plan_only, yes,
                 file_pattern,
                 completion, actions,
                 idx, file_changes, origin, log, refs_new, calls, committed,
                 tree_entries>>

\* the plan step with the auto-confirm test before the plan-only test: with
\* --yes the run goes on to the execution whatever --plan-only says
CliCreatePlan_AutoConfirmFirst ==
  /\ entry = "cli" /\ pc = "cli_plan"
  /\ \E reply \in RunCompletions :
       LET plan == create_action_plan(prompt, files, reply)
       IN  /\ completion' = reply
           /\ actions' = plan
           /\ IF plan.raised THEN Raises("plan") /\ idx' = idx
              ELSE IF plan.val = <<>>
                THEN Ends("no_actions") /\ UNCHANGED <<error, idx>>
              ELSE IF yes
                THEN pc' = "cli_execute" /\ idx' = 1
                     /\ UNCHANGED <<error, outcome>>
              ELSE IF plan_only
                THEN Ends("plan_only") /\ UNCHANGED <<error, idx>>
              ELSE pc' = "cli_confirm" /\ UNCHANGED <<error, outcome, idx>>
  /\ UNCHANGED <<arg, result, confirm, entry, prompt, plan_only, yes,
                 file_pattern, files, file_changes, origin, log, refs_new,
                 calls, committed, tree_entries>>

\* lines 142-173: the plan is made; an empty plan ends the run with exit code
\* 1, --plan-only with 0; without --yes the run asks before it executes
CliCreatePlan ==
  /\ entry = "cli" /\ pc = "cli_plan"
  /\ \E reply \in RunCompletions :
       LET plan == create_action_plan(prompt, files, reply)
       IN  /\ completion' = reply
           /\ actions' = plan
           /\ IF plan.raised THEN Raises("plan") /\ idx' = idx
              ELSE IF plan.val = <<>>
                THEN Ends("no_actions") /\ UNCHANGED <<error, idx>>
              ELSE IF plan_only
                THEN Ends("plan_only") /\ UNCHANGED <<error, idx>>
              ELSE IF ~yes
                THEN pc' = "cli_confirm" /\ UNCHANGED <<error, outcome, idx>>
              ELSE pc' = "cli_execute" /\ idx' = 1 /\ UNCHANGED <<error, outcome>>
  /\ UNCHANGED <<arg, result, confirm, entry, prompt, plan_only, yes,
                 file_pattern,
                 files, file_changes,
                 origin, log, refs_new, calls, committed, tree_entries>>

\* lines 161-165: input(); anything but y or Y aborts with exit code 0
CliConfirm ==
  /\ entry = "cli" /\ pc = "cli_confirm"
  /\ \E answer \in {<<"y">>, <<"Y">>, <<"n">>, <<>>} :
       /\ confirm' = Some(answer)
       /\ IF Lower(answer) # <<"y">>
            THEN Ends("aborted") /\ idx' = idx
            ELSE pc' = "cli_execute" /\ idx' = 1 /\ outcome' = outcome
  /\ UNCHANGED <<arg, result, entry, prompt, plan_only, yes, file_pattern,
                 files, completion,
                 actions, file_changes, origin, log, refs_new, calls, committed,
                 tree_entries, error>>

\* lines 190-206: the iteration's result is appended when content is truthy
CliKeep(action, got, reply) ==
  /\ log' = Append(log, [i |-> idx, request |-> got.request, reply |-> reply,
                         content |-> got.content])
  /\ IF got.raised
       THEN Raises("generate") /\ UNCHANGED <<idx, file_changes, origin>>
       ELSE /\ idx' = idx + 1
            /\ UNCHANGED <<pc, error, outcome>>
            /\ IF Truthy(got.content)
                 THEN /\ file_changes' =
                           Append(file_changes,
                                  FileChange(action.path, got.content.v,
                                             IF action.action = "UPDATE"
                                               THEN FindSha(files, action.path)
                                               ELSE "null"))
                      /\ origin' = Append(origin, idx)
                 ELSE UNCHANGED <<file_changes, origin>>

\* the loop without a Delete case: whatever is no Update is generated as a
\* new file
CliExecuteAction_NoDeleteCase ==
  /\ entry = "cli" /\ pc = "cli_execute" /\ idx <= Len(actions.val)
  /\ LET action == actions.val[idx]
     IN  \E reply \in GenReplies :
           CliKeep(action,
                   IF action.action = "UPDATE"
                     THEN generate_file_content(action, reply)
                     ELSE Generated(Request("create-file", action),
                                    generate_new_file(action, reply)),
                   reply)
  /\ UNCHANGED <<arg, result, confirm, entry, prompt, plan_only, yes,
                 file_pattern,
                 files, completion,
                 actions, refs_new, calls, committed, tree_entries>>

\* lines 175-206: one iteration of the loop over the plan; a Delete action is
\* skipped before any content is asked for
CliExecuteAction ==
  /\ entry = "cli" /\ pc = "cli_execute" /\ idx <= Len(actions.val)
  /\ LET action == actions.val[idx]
     IN  IF action.action = "DELETE"
           THEN CliKeep(action, [raised |-> FALSE, request |-> NoRequest,
                                 content |-> None], NoCompletion)
           ELSE \E reply \in GenReplies :
                  CliKeep(action, generate_file_content(action, reply), reply)
  /\ UNCHANGED <<arg, result, confirm, entry, prompt, plan_only, yes,
                 file_pattern,
                 files, completion,
                 actions, refs_new, calls, committed, tree_entries>>

\* the run going on to the branch without looking at file_changes
CliAfterLoop_NoEmptyCheck ==
  /\ entry = "cli" /\ pc = "cli_execute" /\ idx > Len(actions.val)
  /\ pc' = "create_branch" /\ outcome' = outcome
  /\ UNCHANGED <<arg, result, confirm, entry, prompt, plan_only, yes,
                 file_pattern,
                 files, completion,
                 actions, idx, file_changes, origin, log, refs_new, calls,
                 committed, tree_entries, error>>

\* the branch step placed inside the loop: the run goes on to the branch as
\* soon as the list holds a change
CliAfterLoop_InsideLoop ==
  /\ entry = "cli" /\ pc = "cli_execute"
  /\ IF file_changes = <<>>
       THEN idx > Len(actions.val) /\ Ends("no_files_generated")
       ELSE pc' = "create_branch" /\ outcome' = outcome
  /\ UNCHANGED <<arg, result, confirm, entry, prompt, plan_only, yes,
                 file_pattern,
                 files, completion, actions, idx, file_changes, origin, log,
                 refs_new, calls, committed, tree_entries, error>>

\* lines 208-213: with no file change the run ends with exit code 1
CliAfterLoop ==
  /\ entry = "cli" /\ pc = "cli_execute" /\ idx > Len(actions.val)
  /\ IF file_changes = <<>>
       THEN Ends("no_files_generated")
       ELSE pc' = "create_branch" /\ outcome' = outcome
  /\ UNCHANGED <<arg, result, confirm, entry, prompt, plan_only, yes,
                 file_pattern,
                 files, completion,
                 actions, idx, file_changes, origin, log, refs_new, calls,
                 committed, tree_entries, error>>

\* --------------------------------------------------------------- main.py
\* lines 77-93: parse_repo_url, get_repository_files and the pattern filter
ApiFetchFiles ==
  /\ entry = "api" /\ pc = "api_start"
  /\ \E ok \in BOOLEAN, tree \in Trees :
       IF ok
         THEN /\ files' = FilterPattern(get_repository_files(tree), file_pattern)
              /\ pc' = "api_generate"
              /\ idx' = 1
              /\ UNCHANGED <<error, outcome>>
         ELSE /\ Raises("fetch")
              /\ UNCHANGED <<files, idx>>
  /\ UNCHANGED <<arg, result, confirm, entry, prompt, plan_only, yes,
                 file_pattern,
                 completion, actions,
                 file_changes, origin, log, refs_new, calls, committed,
                 tree_entries>>

\* lines 104-110: the update is kept when it is truthy and differs from the
\* file's content
ApiKeeps(file, updated_content) ==
  Truthy(updated_content) /\ updated_content # file.content

\* lines 95-110: one iteration of the loop over the files
ApiGenerate ==
  /\ entry = "api" /\ pc = "api_generate" /\ idx <= Len(files)
  /\ LET file == files[idx]
     IN  IF HasContent(file)
           THEN \E reply \in GenReplies :
                  LET updated_content == generate_code_update(file.content, reply)
                      request == [task |-> "update-file", path |-> file.path,
                                  current_content |-> file.content]
                  IN  /\ log' = Append(log, [i |-> idx, request |-> request,
                                             reply |-> reply,
                                             content |-> updated_content])
                      /\ IF ApiKeeps(file, updated_content)
                           THEN /\ file_changes' =
                                     Append(file_changes,
                                            FileChange(file.path, updated_content.v,
                                                       file.sha))
                                /\ origin' = Append(origin, idx)
                           ELSE UNCHANGED <<file_changes, origin>>
           ELSE UNCHANGED <<log, file_changes, origin>>
  /\ idx' = idx + 1
  /\ UNCHANGED <<arg, result, confirm, entry, pc, prompt, plan_only, yes,
                 file_pattern,
                 files, completion,
                 actions, refs_new, calls, committed, tree_entries, error, outcome>>

\* lines 112-124: with no file change the response says success=False
ApiAfterLoop ==
  /\ entry = "api" /\ pc = "api_generate" /\ idx > Len(files)
  /\ IF file_changes = <<>>
       THEN Ends("api_no_changes")
       ELSE pc' = "create_branch" /\ outcome' = outcome
  /\ UNCHANGED <<arg, result, confirm, entry, prompt, plan_only, yes,
                 file_pattern,
                 files, completion,
                 actions, idx, file_changes, origin, log, refs_new, calls,
                 committed, tree_entries, error>>

\* create_branch without a look at the POST's status (neither the 422 test
\* nor raise_for_status): the caller goes on to create_commit whatever the
\* reply was
create_branch_PostUnchecked ==
  /\ pc = "create_branch"
  /\ \E reply \in {"get_failed", "taken", "post_failed", "created"} :
       /\ calls' = calls \o (IF reply = "get_failed"
                               THEN <<"get_base_ref">>
                               ELSE <<"get_base_ref", "create_ref">>)
       /\ refs_new' = (IF reply = "created" THEN "base"
                       ELSE IF reply = "taken" THEN "other" ELSE refs_new)
       /\ IF reply # "get_failed"
            THEN /\ pc' = "commit_read"
                 /\ committed' = file_changes
                 /\ UNCHANGED <<error, outcome>>
            ELSE /\ Raises("store")
                 /\ committed' = committed
  /\ UNCHANGED <<arg, result, confirm, entry, prompt, plan_only, yes,
                 file_pattern,
                 files, completion, actions, idx, file_changes, origin, log,
                 tree_entries>>

\* ------------------------------------------------------ github_service.py
\* GitHubService.create_branch: GET the base ref, POST the new ref.  The
\* name is taken when the POST arrives (422, ValueError), a request fails
\* (raise_for_status), or the ref is created at the base commit; the caller
\* then calls create_commit with its file_changes (cli.py lines 217-223,
\* main.py lines 128-134).
create_branch ==
  /\ pc = "create_branch"
  /\ \E reply \in {"get_failed", "taken", "post_failed", "created"} :
       /\ calls' = calls \o (IF reply = "get_failed"
                               THEN <<"get_base_ref">>
                               ELSE <<"get_base_ref", "create_ref">>)
       /\ refs_new' = (IF reply = "created" THEN "base"
                       ELSE IF reply = "taken" THEN "other" ELSE refs_new)
       /\ IF reply = "created"
            THEN /\ pc' = "commit_read"
                 /\ committed' = file_changes
                 /\ UNCHANGED <<error, outcome>>
            ELSE /\ Raises(IF reply = "taken" THEN "branch_exists" ELSE "store")
                 /\ committed' = committed
  /\ UNCHANGED <<arg, result, confirm, entry, prompt, plan_only, yes,
                 file_pattern,
                 files, completion,
                 actions, idx, file_changes, origin, log, tree_entries>>

\* what a step of create_commit leaves alone
CommitFrame ==
  UNCHANGED <<arg, result, confirm, entry, prompt, plan_only, yes,
                 file_pattern,
                 files, completion,
              actions, idx, file_changes, origin, log, committed>>

\* one request of create_commit without raise_for_status: the method goes on
\* whatever the reply was
CommitRequest_NoRaise(name, ok, next) ==
  /\ calls' = Append(calls, name)
  /\ pc' = next
  /\ UNCHANGED <<error, outcome>>

\* one request of create_commit: it succeeds and the method goes on, or
\* raise_for_status raises
CommitRequest(name, ok, next) ==
  /\ calls' = Append(calls, name)
  /\ IF ok
       THEN pc' = next /\ UNCHANGED <<error, outcome>>
       ELSE Raises("store")

\* create_commit steps 1 and 2: GET the branch ref, GET its commit
create_commit_read ==
  /\ pc = "commit_read"
  /\ \E reply \in {"ref_failed", "commit_failed", "read"} :
       /\ calls' = calls \o (IF reply = "ref_failed"
                               THEN <<"get_ref">>
                               ELSE <<"get_ref", "get_commit">>)
       /\ IF reply = "read"
            THEN pc' = "commit_blobs" /\ UNCHANGED <<error, outcome>>
            ELSE Raises("store")
  /\ UNCHANGED <<refs_new, tree_entries>>
  /\ CommitFrame

\* step 3: one POST of a blob per change, in list order
create_commit_blob ==
  /\ pc = "commit_blobs" /\ Len(tree_entries) < Len(committed)
  /\ \E ok \in BOOLEAN :
       /\ CommitRequest("create_blob", ok, "commit_blobs")
       /\ tree_entries' = (IF ok
                             THEN Append(tree_entries,
                                         committed[Len(tree_entries) + 1].path)
                             ELSE tree_entries)
  /\ UNCHANGED refs_new
  /\ CommitFrame

\* step 4: POST the tree
create_commit_tree ==
  /\ pc = "commit_blobs" /\ Len(tree_entries) = Len(committed)
  /\ \E ok \in BOOLEAN : CommitRequest("create_tree", ok, "commit_commit")
  /\ UNCHANGED <<refs_new, tree_entries>>
  /\ CommitFrame

\* step 5: POST the commit
create_commit_commit ==
  /\ pc = "commit_commit"
  /\ \E ok \in BOOLEAN : CommitRequest("create_commit", ok, "commit_ref")
  /\ UNCHANGED <<refs_new, tree_entries>>
  /\ CommitFrame

\* step 6: PATCH the branch ref; then the run reports success (cli.py lines
\* 225-237, main.py lines 136-143)
create_commit_update_ref ==
  /\ pc = "commit_ref"
  /\ \E ok \in BOOLEAN :
       /\ calls' = Append(calls, "update_ref")
       /\ IF ok
            THEN /\ refs_new' = "new"
                 /\ Ends(IF entry = "cli" THEN "success" ELSE "api_success")
                 /\ error' = error
            ELSE /\ Raises("store")
                 /\ refs_new' = refs_new
  /\ UNCHANGED tree_entries
  /\ CommitFrame

Next ==
  \/ CliCheckEnv
  \/ CliFetchFiles
  \/ CliCreatePlan
  \/ CliConfirm
  \/ CliExecuteAction
  \/ CliAfterLoop
  \/ ApiFetchFiles
  \/ ApiGenerate
  \/ ApiAfterLoop
  \/ create_branch
  \/ create_commit_read
  \/ create_commit_blob
  \/ create_commit_tree
  \/ create_commit_commit
  \/ create_commit_update_ref

Spec == Init /\ [][Next]_vars

\* ------------------------------------------- create_action_plan on its own
\* One call of create_action_plan(user_prompt, repository_files, ...).  The
\* signature admits files whose content is None or "" (get_repository_files
\* never lists such a file).  Either the completion fails on any of the
\* instructions, or any of the plan replies arrives for the prompt that asks
\* for a README.
InitPlanner ==
  /\ InitRun
  /\ arg = <<>>
  /\ entry = "planner"
  /\ pc = "planner_call"
  /\ plan_only = FALSE
  /\ yes = FALSE
  /\ file_pattern = "none"
  /\ files \in Trees
  /\ \/ /\ prompt \in Instructions
        /\ completion \in {CompletionError, CompletionText(<<TokCh>>)}
     \/ /\ prompt = PromptReadme
        /\ completion \in PlannerCompletions

PlannerCall ==
  /\ entry = "planner" /\ pc = "planner_call"
  /\ actions' = create_action_plan(prompt, files, completion)
  /\ pc' = "planner_returned"
  /\ UNCHANGED <<arg, result, confirm, entry, prompt, plan_only, yes,
                 file_pattern,
                 files, completion,
                 idx, file_changes, origin, log, refs_new, calls, committed,
                 tree_entries, error, outcome>>

SpecPlanner == InitPlanner /\ [][PlannerCall]_vars

\* ---------------------------------------------- _clean_response on its own
\* Reply texts: up to MaxPieces pieces, each a fence, a newline, a space or
\* a letter.
Pieces == {Fence, <<"NL">>, <<"SP">>, <<"a">>}

RECURSIVE Concat(_)
Concat(ss) == IF ss = <<>> THEN <<>> ELSE Head(ss) \o Concat(Tail(ss))

ReplyTexts == {Concat(ps) : ps \in SeqsUpTo(Pieces, MaxPieces)}

\* what a call of a helper on its own leaves alone
HelperFrame ==
  UNCHANGED <<arg, confirm, entry, prompt, plan_only, yes, file_pattern, files,
              completion, actions, idx, file_changes, origin, log, refs_new,
              calls, committed, tree_entries, error, outcome>>

InitHelper ==
  /\ InitRun
  /\ prompt = <<>>
  /\ plan_only = FALSE
  /\ yes = FALSE
  /\ file_pattern = "none"
  /\ files = <<>>
  /\ completion = NoCompletion

InitClean ==
  /\ InitHelper
  /\ entry = "clean"
  /\ pc = "clean_call"
  /\ arg \in ReplyTexts

\* _clean_response(text)
CleanCall ==
  /\ entry = "clean" /\ pc = "clean_call"
  /\ result' = <<clean_response(arg)>>
  /\ pc' = "clean_again"
  /\ HelperFrame

\* _clean_response called on the text the first call returned
CleanAgain ==
  /\ entry = "clean" /\ pc = "clean_again"
  /\ result' = Append(result, clean_response(result[1]))
  /\ pc' = "done"
  /\ HelperFrame

NextClean == CleanCall \/ CleanAgain

SpecClean == InitClean /\ [][NextClean]_vars

\* ------------------------------------------- the context samples on their own
\* the file_samples of create_action_plan (planning_service.py lines 47-52)
\* and the project_context of generate_new_file (claude_service.py lines
\* 156-160): a block with path and preview for every file among the first
\* max_files of the list whose content is truthy
RECURSIVE SampleBlocks(_, _)
SampleBlocks(project_files, max_chars) ==
  IF project_files = <<>> THEN <<>>
  ELSE (IF HasContent(Head(project_files))
          THEN <<[path |-> Head(project_files).path,
                  preview |-> Take(Head(project_files).content.v, max_chars)]>>
          ELSE <<>>)
       \o SampleBlocks(Tail(project_files), max_chars)

sample_files(project_files, max_files, max_chars) ==
  SampleBlocks(Take(project_files, max_files), max_chars)

\* the limits of the two samplings
SampleLimits(which) ==
  IF which = "plan"
    THEN [max_files |-> PlanSampleFiles, max_chars |-> PlanSampleChars]
    ELSE [max_files |-> NewFileSampleFiles, max_chars |-> NewFileSampleChars]

\* file lists for the samplings: up to MaxSampleFiles files whose content is
\* None or a short text, and single files whose content is empty or has a
\* length at a limit
SamplePath(i) == [dir |-> "src", n |-> i]

RECURSIVE SampleListsFrom(_)
SampleListsFrom(i) ==
  IF i > MaxSampleFiles THEN {<<>>}
  ELSE {<<>>} \cup {<<RepoFile(SamplePath(i), i, c)>> \o r :
                      c \in {None, Some(TextA)}, r \in SampleListsFrom(i + 1)}

LongText(n) == [i \in 1..n |-> "a"]

LimitLengths ==
  {0} \cup {PlanSampleChars + d : d \in {-1, 0, 1}}
      \cup {NewFileSampleChars + d : d \in {-1, 0, 1}}

SampleLists ==
  SampleListsFrom(1)
  \cup {<<RepoFile(SamplePath(1), 1, Some(LongText(n)))>> : n \in LimitLengths}

InitSample ==
  /\ InitHelper
  /\ entry = "sample"
  /\ pc = "sample_call"
  /\ arg \in [which : {"plan", "new_file"}, files : SampleLists]

SampleCall ==
  /\ entry = "sample" /\ pc = "sample_call"
  /\ result' = sample_files(arg.files, SampleLimits(arg.which).max_files,
                            SampleLimits(arg.which).max_chars)
  /\ pc' = "done"
  /\ HelperFrame

SpecSample == InitSample /\ [][SampleCall]_vars

\* ================================================================ claims
\* the CLI run has left the loop over the plan
CliLoopDone == entry = "cli" /\ idx > 0 /\ idx > Len(actions.val)

\* the plan entry a FileChange of the CLI run came from
OriginAction(k) == actions.val[origin[k]]

\* C1: the execution stage never produces a FileChange for a Delete action:
\* every FileChange comes from a Create or Update action of the plan and has
\* that action's path, and no iteration over a Delete action sends a request
\* to the completion backend.
C1_NoChangeForDelete ==
  entry = "cli" =>
    /\ \A k \in 1..Len(file_changes) :
         /\ OriginAction(k).action \in {"CREATE", "UPDATE"}
         /\ file_changes[k].path = OriginAction(k).path
    /\ \A k \in 1..Len(log) :
         actions.val[log[k].i].action = "DELETE" =>
           log[k].request.task = "none" /\ ~log[k].content.some

\* C1 witness: the loop is over for a plan with a Delete of a.py and an Update
\* of a.py, and the Update's FileChange for a.py is in the list
C1_Witness ==
  /\ CliLoopDone
  /\ \E i \in 1..Len(actions.val) :
       actions.val[i].action = "DELETE" /\ actions.val[i].path = "a.py"
  /\ \E k \in 1..Len(file_changes) :
       file_changes[k].path = "a.py" /\ OriginAction(k).action = "UPDATE"

\* the generation of a log entry succeeded with non-empty content
Succeeded(e) ==
  e.request.task # "none" /\ e.reply.ok /\ clean_response(e.reply.text) # <<>>

\* C2: per-action failures are isolated: whatever the replies to the content
\* requests are, no exception of the generation leaves the loop, every action
\* of the plan is processed once and in order, and the FileChange list holds
\* exactly the actions whose generation succeeded with non-empty content.
C2_FailuresIsolated ==
  entry = "cli" =>
    /\ error # "generate"
    /\ CliLoopDone =>
         /\ Len(log) = Len(actions.val)
         /\ \A k \in 1..Len(log) : log[k].i = k
         /\ origin = SelectSeq([k \in 1..Len(log) |-> k],
                               LAMBDA k : Succeeded(log[k]))
         /\ \A k \in 1..Len(file_changes) :
              /\ file_changes[k].path = actions.val[origin[k]].path
              /\ file_changes[k].content = clean_response(log[origin[k]].reply.text)

\* C2 witness: the loop is over, the first action's completion call failed and
\* the second action's succeeded and is the only FileChange
C2_Witness ==
  /\ CliLoopDone
  /\ Len(log) = 2
  /\ log[1].request.task # "none" /\ ~log[1].reply.ok
  /\ origin = <<2>>

\* the plan reply is a JSON object whose "plan" is a list
ParsedPlan ==
  /\ completion.ok
  /\ ~extract_json(completion.text).raised
  /\ extract_json(completion.text).val.t = "obj"
  /\ extract_json(completion.text).val.plan = "list"

ReplyItems == extract_json(completion.text).val.items

IsKind(s) == Lower(s) \in {StrCreate, StrUpdate, StrDelete}
Complete(item) ==
  item.obj /\ item.action.k = "str" /\ item.path.k = "str" /\ item.reason.k = "str"
UnknownKind(item) == Complete(item) /\ ~IsKind(item.action.s)
KnownKind(item) == Complete(item) /\ IsKind(item.action.s)

\* the reply to the plan request did not arrive, or is no JSON text
PlanReplyUnparseable == ~completion.ok \/ extract_json(completion.text).raised

\* the reply is JSON that cannot be read as a plan: no object, a "plan" that
\* is null, a number, a text or a non-empty object, or a list with an entry
\* that is incomplete or of an unknown kind
PlanReplyMalformed ==
  /\ completion.ok
  /\ ~extract_json(completion.text).raised
  /\ \/ extract_json(completion.text).val.t # "obj"
     \/ extract_json(completion.text).val.plan \in {"null", "num", "str", "obj"}
     \/ /\ ParsedPlan
        /\ \E i \in 1..Len(ReplyItems) : ~KnownKind(ReplyItems[i])

\* C3: create_action_plan never raises, and when the completion call fails or
\* the reply cannot be extracted and parsed as a plan (it is no JSON text, or
\* JSON that cannot be read as a plan) it returns the fallback plan of
\* (instruction, files), which may be empty.
C3_PlannerNeverRaises ==
  pc = "planner_returned" =>
    /\ ~actions.raised
    /\ (PlanReplyUnparseable \/ PlanReplyMalformed) =>
         actions.val = fallback_plan(prompt, files)

\* C3 witness: a reply that is no JSON text was answered with a non-empty
\* fallback plan
C3_Witness ==
  /\ pc = "planner_returned"
  /\ completion.ok /\ extract_json(completion.text).raised
  /\ ~actions.raised /\ actions.val # <<>>

\* the fallback path was taken
FallbackTaken ==
  pc = "planner_returned" /\ create_action_plan_try(prompt, files, completion).raised

\* the letters r, e, a, d, m, e follow each other somewhere in s, each in
\* either case
HasReadmeAnyCase(s) ==
  \E i \in 1..Len(s) :
    /\ i + Len(Readme) - 1 <= Len(s)
    /\ \A j \in 1..Len(Readme) :
         s[i + j - 1] \in {Readme[j], UpperChar(Readme[j])}

IsCreateReadme(a) == a.action = "CREATE" /\ a.path = "README.md"

\* C4: the fallback plan contains a Create action for README.md if and only if
\* the instruction contains "readme" in any letter case; when present it is
\* the first action and the only Create action.
C4_ReadmeIffMentioned ==
  FallbackTaken =>
    /\ (\E i \in 1..Len(actions.val) : IsCreateReadme(actions.val[i]))
         <=> HasReadmeAnyCase(prompt)
    /\ \A i \in 1..Len(actions.val) :
         actions.val[i].action = "CREATE" => i = 1 /\ IsCreateReadme(actions.val[i])

\* C4 witness: the instruction spells the word with capitals, and the fallback
\* plan is the README action followed by an Update
C4_Witness ==
  /\ FallbackTaken
  /\ HasReadmeAnyCase(prompt) /\ ~Contains(prompt, Readme)
  /\ Len(actions.val) = 2
  /\ IsCreateReadme(actions.val[1])
  /\ actions.val[2].action = "UPDATE"

\* C5 (as claimed): the fallback plan has exactly one Update action per input
\* file whose content is not null, the empty string included, in input order
\* and with that file's content as currentContent.
C5_UpdatePerNonNullFile ==
  FallbackTaken =>
    LET updates == SelectSeq(actions.val, LAMBDA a : a.action = "UPDATE")
        nonnull == SelectSeq(files, LAMBDA f : f.content.some)
    IN  /\ Len(updates) = Len(nonnull)
        /\ \A i \in 1..Len(updates) :
             /\ updates[i].path = nonnull[i].path
             /\ updates[i].current_content = nonnull[i].content

\* the run has handed its FileChange list to create_commit
AtCommit == pc \in {"commit_read", "commit_blobs", "commit_commit", "commit_ref"}

\* the content the k-th committed change replaces, None when it replaces none
ReplacedContent(k) ==
  IF entry = "cli"
    THEN (IF OriginAction(k).action = "UPDATE"
            THEN OriginAction(k).current_content ELSE None)
    ELSE files[origin[k]].content

\* C6 (as claimed): in every run that reaches the commit step, no FileChange
\* passed to the commit is an update whose generated content is identical to
\* the file's current content.
C6_NoIdenticalUpdateCommitted ==
  AtCommit =>
    \A k \in 1..Len(committed) : ReplacedContent(k) # Some(committed[k].content)

\* C7: when the final FileChange set is empty the run sends no request of
\* create_branch or create_commit to the repository store.
C7_NoStoreCallsWithoutChanges ==
  file_changes = <<>> => calls = <<>> /\ refs_new = "absent" /\ ~AtCommit

\* C7 witness: a CLI run whose every generation failed has ended
C7_Witness ==
  /\ entry = "cli" /\ pc = "done" /\ CliLoopDone
  /\ \E k \in 1..Len(log) : log[k].request.task # "none"
  /\ file_changes = <<>>

\* C8 (as claimed): when a parsed plan has an entry of an unknown kind, only
\* that entry is skipped: the other entries are returned, in order, and the
\* plan is not replaced by the fallback plan.
C8_UnknownKindSkipsEntryOnly ==
  ( /\ pc = "planner_returned"
    /\ ParsedPlan
    /\ \E i \in 1..Len(ReplyItems) : UnknownKind(ReplyItems[i])
    /\ \A i \in 1..Len(ReplyItems) :
         UnknownKind(ReplyItems[i]) \/ KnownKind(ReplyItems[i]) )
  => LET kept == SelectSeq(ReplyItems, KnownKind)
     IN  actions.val = [i \in 1..Len(kept) |-> ConvertItem(kept[i], files).val]

\* the reply is JSON without the shape of a plan: no object, no "plan" array,
\* or an entry that is no object or lacks action, path or reason
NotPlanShaped ==
  /\ completion.ok
  /\ ~extract_json(completion.text).raised
  /\ \/ extract_json(completion.text).val.t # "obj"
     \/ extract_json(completion.text).val.plan # "list"
     \/ \E i \in 1..Len(ReplyItems) :
          \/ ~ReplyItems[i].obj
          \/ ReplyItems[i].action.k = "absent"
          \/ ReplyItems[i].path.k = "absent"
          \/ ReplyItems[i].reason.k = "absent"

\* C9 (as claimed): a reply that parses as JSON but has not the shape of a
\* plan gives the fallback plan of (instruction, files), not an empty or
\* partial plan and not an error.
C9_BadShapeGivesFallback ==
  (pc = "planner_returned" /\ NotPlanShaped) =>
    ~actions.raised /\ actions.val = fallback_plan(prompt, files)

\* C10 (as claimed): an Update action whose currentContent is null never has
\* content generated from an update-file prompt.
C10_NoUpdatePromptWithoutContent ==
  entry = "cli" =>
    \A k \in 1..Len(log) :
      log[k].request.task = "update-file" => log[k].request.current_content.some

\* ---------------------------------------------------------------- C11
\* the snapshot has a file with exactly this path whose content is not None
SnapshotHasContent(path) ==
  \E i \in 1..Len(files) : files[i].path = path /\ files[i].content.some

\* the content of the snapshot's file with this path
SnapshotContent(path) ==
  files[CHOOSE i \in 1..Len(files) : files[i].path = path].content

\* C11: in every FileAction the Planner returns, by conversion of the reply
\* or by the fallback, current_content is not None exactly when the kind is
\* UPDATE and the snapshot has a file with exactly that path and a content
\* that is not None; when it is not None it is that file's content.
C11_CurrentContentIffUpdateOfKnownFile ==
  (entry = "planner" /\ pc = "planner_returned") =>
    \A k \in 1..Len(actions.val) :
      LET a == actions.val[k]
      IN  /\ a.current_content.some
               <=> (a.action = "UPDATE" /\ SnapshotHasContent(a.path))
          /\ a.current_content.some
               => a.current_content = SnapshotContent(a.path)

\* the reply's plan was converted, and it holds an UPDATE of a file of the
\* snapshot (content resolved), an UPDATE whose path the snapshot lacks
\* (None), and the snapshot also has a file whose content is None
C11_Witness ==
  /\ entry = "planner" /\ pc = "planner_returned"
  /\ ~FallbackTaken
  /\ \E k \in 1..Len(actions.val) :
       /\ actions.val[k].action = "UPDATE"
       /\ actions.val[k].current_content.some
       /\ actions.val[k].current_content.v # <<>>
  /\ \E k \in 1..Len(actions.val) :
       /\ actions.val[k].action = "UPDATE"
       /\ ~actions.val[k].current_content.some
  /\ \E i \in 1..Len(files) : ~files[i].content.some

\* ---------------------------------------------------------------- C12
\* the number of FileActions of the plan with this path
ActionsWithPath(path) ==
  Cardinality({i \in 1..Len(actions.val) : actions.val[i].path = path})

\* C12 (as claimed): at every point of a run the path of every FileChange of
\* the accumulated list appears in exactly one FileAction of the plan, so no
\* two FileChanges of the list have the same path, whatever plan the Planner
\* returned.
C12_OneActionPerChangePath ==
  entry = "cli" =>
    /\ \A k \in 1..Len(file_changes) : ActionsWithPath(file_changes[k].path) = 1
    /\ \A k, l \in 1..Len(file_changes) :
         file_changes[k].path = file_changes[l].path => k = l

\* ---------------------------------------------------------------- C13
\* C13 (as claimed): a FileChange produced from a Create action has no base
\* sha, and a FileChange produced from an Update action has a base sha, the
\* sha of the snapshot's file with the same path.
C13_ShaByKind ==
  entry = "cli" =>
    \A k \in 1..Len(file_changes) :
      /\ OriginAction(k).action = "CREATE" => file_changes[k].sha = "null"
      /\ OriginAction(k).action = "UPDATE" =>
           /\ file_changes[k].sha # "null"
           /\ \E i \in 1..Len(files) :
                /\ files[i].path = file_changes[k].path
                /\ files[i].sha = file_changes[k].sha

\* ---------------------------------------------------------------- C14
\* the run ended in a failure outcome
FailureOutcome == pc = "done" /\ outcome \in {"error", "http_500"}

\* C14: when the target branch name already exists, branch creation fails
\* and the error reaches the caller: the ref request is sent once and not
\* again, no blob, tree, commit or ref-update request follows it, nothing is
\* handed to the commit operation, and the run ends in a failure outcome.
C14_ExistingBranchFailsRun ==
  refs_new = "other" =>
    /\ error = "branch_exists"
    /\ FailureOutcome
    /\ calls = <<"get_base_ref", "create_ref">>
    /\ committed = <<>> /\ tree_entries = <<>>

\* a run with two file changes found the branch name taken
C14_Witness ==
  /\ refs_new = "other"
  /\ Len(file_changes) = 2
  /\ error = "branch_exists"

\* ---------------------------------------------------------------- C15
\* the requests of a complete write of n changes, in order
WriteRequests(n) ==
  <<"get_base_ref", "create_ref", "get_ref", "get_commit">>
  \o [k \in 1..n |-> "create_blob"]
  \o <<"create_tree", "create_commit", "update_ref">>

IsPrefix(s, t) == Len(s) <= Len(t) /\ \A i \in 1..Len(s) : s[i] = t[i]

\* the branch was created and create_commit has been entered
CommitEntered == Len(calls) >= 3

\* C15: the store write path is strictly ordered: branch creation, one blob
\* per change in list order, the tree, the commit, the ref update.  The ref
\* update comes after all of them and only in a run no step of which failed;
\* a failure at any step leaves the branch ref at the commit it had when the
\* commit operation started; the ref advances at most once per run.
C15_WritePathOrdered ==
  /\ IsPrefix(calls, WriteRequests(Len(file_changes)))
  /\ Len(tree_entries) <= Len(file_changes)
  /\ \A k \in 1..Len(tree_entries) : tree_entries[k] = file_changes[k].path
  /\ Cardinality({i \in 1..Len(calls) : calls[i] = "create_blob"})
       = Len(tree_entries)
           + (IF error = "store" /\ calls[Len(calls)] = "create_blob"
                THEN 1 ELSE 0)
  /\ Cardinality({i \in 1..Len(calls) : calls[i] = "update_ref"}) <= 1
  /\ refs_new = "new" =>
       /\ calls = WriteRequests(Len(file_changes))
       /\ Len(tree_entries) = Len(file_changes)
       /\ error = "none"
  /\ (CommitEntered /\ refs_new # "new") => refs_new = "base"
  /\ (CommitEntered /\ error # "none") => (FailureOutcome /\ refs_new = "base")

\* a write of two changes went through and the ref advanced
C15_Witness ==
  /\ refs_new = "new"
  /\ Len(file_changes) = 2
  /\ tree_entries = <<file_changes[1].path, file_changes[2].path>>
  /\ calls[Len(calls)] = "update_ref"

\* ---------------------------------------------------------------- C20
\* C20: the pipeline is strictly sequential.  No content request is sent
\* before the Planner has returned the plan; no branch or commit request is
\* sent before every action of the plan has been processed; the commit
\* operation is entered only after branch creation succeeded, and with
\* exactly the accumulated FileChange list.
C20_PipelineSequential ==
  entry = "cli" =>
    /\ pc \in {"cli_start", "cli_fetch", "cli_plan", "cli_confirm"} =>
         log = <<>> /\ file_changes = <<>> /\ calls = <<>>
    /\ \A k \in 1..Len(log) : log[k].i = k /\ k <= Len(actions.val)
    /\ (calls # <<>> \/ pc = "create_branch") =>
         /\ Len(log) = Len(actions.val)
         /\ idx > Len(actions.val)
    /\ (CommitEntered \/ AtCommit) =>
         /\ IsPrefix(<<"get_base_ref", "create_ref">>, calls)
         /\ refs_new \in {"base", "new"}
         /\ committed = file_changes

\* the commit operation is at its blobs for a plan of two actions, both
\* processed, of which one gave a change
C20_Witness ==
  /\ entry = "cli" /\ pc = "commit_blobs"
  /\ Len(actions.val) = 2 /\ Len(log) = 2
  /\ Len(file_changes) = 1
  /\ committed = file_changes

\* ---------------------------------------------------------------- C16
\* the run ended with an empty final FileChange list after its loop
EndedWithoutChanges ==
  pc = "done" /\ outcome \in {"no_files_generated", "api_no_changes"}

\* C16 (as claimed): a run whose final FileChange list is empty ends in a
\* normal no-op outcome, one the caller can tell from the outcome of a
\* configuration error and from the outcome of an unexpected failure.
C16_NoOpOutcomeDistinct ==
  EndedWithoutChanges =>
    IF entry = "cli"
      THEN /\ ExitStatus(outcome) = 0
           /\ ExitStatus(outcome) # ExitStatus("config_error")
           /\ ExitStatus(outcome) # ExitStatus("error")
      ELSE /\ ExitStatus(outcome) = 200
           /\ ExitStatus(outcome) # ExitStatus("http_500")

\* ---------------------------------------------------------------- C17
\* C17 (as claimed): code-content extraction is idempotent: for every input
\* text, extracting from the extracted text gives the extracted text again.
C17_ExtractionIdempotent ==
  (entry = "clean" /\ pc = "done") => result[2] = result[1]

\* ---------------------------------------------------------------- C18
\* the index of the last line that is not blank, 0 when every line is blank
LastNonEmptyLine(lines) ==
  IF \A m \in 1..Len(lines) : Strip(lines[m]) = <<>> THEN 0
  ELSE CHOOSE m \in 1..Len(lines) :
         /\ Strip(lines[m]) # <<>>
         /\ \A n \in (m + 1)..Len(lines) : Strip(lines[n]) = <<>>

\* the extraction the claim describes
ClaimedExtraction(text) ==
  IF StartsWith(text, Fence)
    THEN LET rest == Tail(SplitLines(text))
             m == LastNonEmptyLine(rest)
         IN  IF m > 0 /\ Strip(rest[m]) = Fence
               THEN Strip(JoinLines(SubSeq(rest, 1, m - 1)))
               ELSE Strip(JoinLines(rest))
    ELSE Strip(text)

\* C18 (as claimed): on a text that begins with a fence marker the
\* extraction drops the first line and, when the last non-empty line is a
\* bare fence marker (blank lines or a trailing newline may follow it), that
\* line too, and returns the interior trimmed; on any other text it returns
\* the text trimmed.
C18_ExtractionDropsClosingFence ==
  (entry = "clean" /\ pc # "clean_call") => result[1] = ClaimedExtraction(arg)

\* ---------------------------------------------------------------- C19
\* the sampling the claim describes: the first max_files files whose content
\* is not None, each content cut to max_chars characters
ClaimedSample(fs, max_files, max_chars) ==
  LET with_content == SelectSeq(fs, LAMBDA f : f.content.some)
      taken == Take(with_content, max_files)
  IN  [k \in 1..Len(taken) |->
         [path |-> taken[k].path, preview |-> Take(taken[k].content.v, max_chars)]]

\* C19 (as claimed): context sampling yields, in input order, the first
\* maxFiles files that have non-null content (a file with null content does
\* not count toward the limit), each content truncated to maxCharsPerFile
\* characters, for the plan sampling (8 / 500) and the new-file sampling
\* (10 / 1000).
C19_SampleFirstFilesWithContent ==
  (entry = "sample" /\ pc = "done") =>
    result = ClaimedSample(arg.files, SampleLimits(arg.which).max_files,
                           SampleLimits(arg.which).max_chars)

\* ---------------------------------------------------------------- C21
\* the CLI run has its plan: create_action_plan has returned
PlanReturned ==
  entry = "cli" /\ pc \notin {"cli_start", "cli_fetch", "cli_plan"}
  /\ outcome # "config_error" /\ error \notin {"fetch", "plan"}

\* the user was asked and answered something that is not y in either case
Declined == ~yes /\ confirm.some /\ Lower(confirm.v) # <<"y">>

\* no content request and no store request was sent, and nothing was built
NothingRequested ==
  log = <<>> /\ calls = <<>> /\ file_changes = <<>> /\ refs_new = "absent"

\* C21: in the CLI flow, when the plan is empty, or plan-only mode is set
\* (auto-confirm set or not), or auto-confirm is off and the user does not
\* confirm with y, the run ends without a content-generation request and
\* without a branch-creation or commit request to the repository store; and
\* while the user has not answered, nothing is requested either.
C21_NoRequestsWithoutGoAhead ==
  /\ (PlanReturned /\ (actions.val = <<>> \/ plan_only \/ Declined)) =>
       pc = "done" /\ NothingRequested
  /\ (PlanReturned /\ ~yes /\ ~confirm.some) => NothingRequested

\* a run with plan-only and auto-confirm both set ended with a plan of two
\* actions
C21_Witness ==
  /\ PlanReturned /\ pc = "done"
  /\ plan_only /\ yes
  /\ Len(actions.val) = 2
  /\ outcome = "plan_only"

====
